---------------------------- MODULE Spec2Model ----------------------------
(***************************************************************************)
(* Model of ext/yarp/extension.c: the Ruby binding of YARP.                *)
(*                                                                         *)
(* One behaviour is one call from Ruby into the extension: either          *)
(* YARP::Pack.parse (pack_parse, the decode driver over the pack/unpack    *)
(* template language) or one of dump_file / lex_file / parse_file (which   *)
(* acquire a file through source_file_load and release it through          *)
(* source_file_unload).                                                    *)
(*                                                                         *)
(* The single-step directive parser yp_pack_parse is called by the driver  *)
(* but is not part of extension.c; it is modelled from the design          *)
(* document (sections 4.1-4.3), over a small sample directive table.       *)
(*                                                                         *)
(* A format string is a sequence of one-character strings; an offset is    *)
(* the number of characters before the cursor (0 .. Len).  A 64-bit        *)
(* unsigned magnitude is a sequence of decimal digits, most significant    *)
(* first, without leading zeros (zero is <<0>>), so that the full range    *)
(* 0 .. 2^64-1 is represented exactly.                                     *)
(***************************************************************************)
EXTENDS Integers, Sequences, FiniteSets, TLC

VARIABLES
    api,              \* the entry point Ruby called
    pc,               \* position inside that entry point
    \* ---- pack_parse ----
    version_symbol,   \* argument
    variant_symbol,   \* argument
    format_string,    \* argument
    version,          \* local yp_pack_version
    variant,          \* local yp_pack_variant
    format,           \* local cursor, as an offset into format_string
    format_read,      \* RSTRING_PTR(format_string) has been taken
    encoding,         \* local yp_pack_encoding
    directives_array, \* local VALUE: [allocated, items]
    directive_start,  \* local, offset
    directive_end,    \* local, offset
    parse_result,     \* local yp_pack_result
    out,              \* the out-parameters type .. length of the last call
    resolver_calls,   \* number of calls of yp_pack_parse made so far
    raised,           \* the exception handed to the caller, if any
    returned,         \* the value handed to the caller, if any
    \* ---- dump_file / lex_file / parse_file ----
    fd,               \* the file descriptor of source_file_load
    source,           \* the source_t of the entry point: [source, size]
    load_result,      \* return value of source_file_load
    syscall_failed,   \* which of open / fstat / mmap failed, if any
    parser_runs,      \* number of runs of dump_source/lex_source/parse_source
    unloads,          \* number of calls of source_file_unload
    file_value        \* the value the *_file entry point returned

pack_vars == <<version_symbol, variant_symbol, format_string, version, variant,
               format, format_read, encoding, directives_array, directive_start,
               directive_end, parse_result, out, resolver_calls, raised, returned>>

file_vars == <<fd, source, load_result, syscall_failed, parser_runs, unloads,
               file_value>>

vars == <<api, pc, pack_vars, file_vars>>

---------------------------------------------------------------------------
(* Bounds of the model *)

\* every format string of at most this many characters is an input
MaxLen == 2

\* the largest st_size fstat reports
MaxFileSize == 2

\* cap on the number of loop iterations of one pack_parse call
MaxCalls == 24

---------------------------------------------------------------------------
(* Characters *)

Blank == {" ", "\t", "\n"}

DigitChars == {"0", "1", "2", "3", "4", "5", "6", "7", "8", "9"}

ModifierChars == DigitChars \cup {"*", "!", "<", ">"}

DigitVal(c) ==
    CASE c = "0" -> 0 [] c = "1" -> 1 [] c = "2" -> 2 [] c = "3" -> 3
      [] c = "4" -> 4 [] c = "5" -> 5 [] c = "6" -> 6 [] c = "7" -> 7
      [] c = "8" -> 8 [] c = "9" -> 9

\* the characters short format strings are enumerated over
Alphabet == {" ", "\n", "#", "s", "U", "w", "P", "?", "!", "<", ">", "*", "9"}

RECURSIVE StringsOfLen(_)
StringsOfLen(n) ==
    IF n = 0 THEN {<<>>}
    ELSE {Append(s, c) : s \in StringsOfLen(n - 1), c \in Alphabet}

ShortFormats == UNION {StringsOfLen(n) : n \in 0..MaxLen}

\* longer format strings: counts at the edges of the 64-bit ranges, several
\* encoding-forcing directives, comments followed by directives
LongFormats ==
    { <<"s","9","2","2","3","3","7","2","0","3","6","8","5","4","7","7","5","8","0","7">>,
      <<"s","9","2","2","3","3","7","2","0","3","6","8","5","4","7","7","5","8","0","8">>,
      <<"s","1","8","4","4","6","7","4","4","0","7","3","7","0","9","5","5","1","6","1","5">>,
      <<"s","1","8","4","4","6","7","4","4","0","7","3","7","0","9","5","5","1","6","1","6">>,
      <<"U","0","0","7"," ","w">>,
      <<"s","0">>,
      <<"U"," ","w","2"," ","s","!","<">>,
      <<"w","U","#","U","\n","s","*">>,
      <<"#","w","\n","\n","U","P">>,
      <<"s","<",">">>,
      <<"U","w","U","!","w">> }

Formats == ShortFormats \cup LongFormats

---------------------------------------------------------------------------
(* 64-bit magnitudes as decimal digit sequences *)

\* digits without its leading zeros (<<0>> when nothing else is left)
Normalize(digits) ==
    CHOOSE v \in { LET nz == {i \in 1..Len(ds) : ds[i] # 0}
                   IN  IF nz = {} THEN <<0>>
                       ELSE SubSeq(ds, CHOOSE i \in nz : \A j \in nz : i <= j, Len(ds))
                   : ds \in {digits} } : TRUE

\* a < b digit by digit, for a and b of the same length
LexLess(a, b) ==
    \E x \in {a}, y \in {b} :
        \E i \in 1..Len(x) : x[i] < y[i] /\ \A j \in 1..(i - 1) : x[j] = y[j]

\* a < b, for normalized a and b
DecLess(a, b) ==
    \E x \in {a}, y \in {b} :
        \/ Len(x) < Len(y)
        \/ Len(x) = Len(y) /\ LexLess(x, y)

PadTo(ds, n) == [i \in 1..n |-> IF i <= n - Len(ds) THEN 0 ELSE ds[i - (n - Len(ds))]]

\* a - b by schoolbook subtraction, for a >= b of the same length: digit i
\* borrows exactly when the digits after it of a are less than those of b
SubDigits(a, b) ==
    [i \in 1..Len(a) |->
        LET borrow == IF LexLess(SubSeq(a, i + 1, Len(a)), SubSeq(b, i + 1, Len(b)))
                      THEN 1 ELSE 0
        IN  (a[i] - b[i] - borrow + 10) % 10]

\* a - b, for normalized a >= b
DecSub(a, b) == Normalize(SubDigits(a, PadTo(b, Len(a))))

\* UINT64_MAX = 2^64 - 1, the largest uint64_t
U64Max == <<1,8,4,4,6,7,4,4,0,7,3,7,0,9,5,5,1,6,1,5>>

\* 2^64
Two64 == <<1,8,4,4,6,7,4,4,0,7,3,7,0,9,5,5,1,6,1,6>>

\* LONG_MAX = 2^63 - 1, the largest long
LongMax == <<9,2,2,3,3,7,2,0,3,6,8,5,4,7,7,5,8,0,7>>

\* LONG2NUM(length) with length a uint64_t: the argument is converted to
\* long (modulo 2^64, into -2^63 .. 2^63-1) and boxed as a Ruby Integer.
\* The outer (long) cast acts on the VALUE and changes nothing.
LONG2NUM(length) ==
    IF DecLess(LongMax, length)
    THEN [neg |-> TRUE,  mag |-> DecSub(Two64, length)]
    ELSE [neg |-> FALSE, mag |-> length]

---------------------------------------------------------------------------
(* Conversions of the resolver's enums to caller-visible values *)

PackTypeNames ==
    {"SPACE", "COMMENT", "INTEGER", "UTF8", "BER", "FLOAT",
     "STRING_SPACE_PADDED", "STRING_NULL_PADDED", "STRING_NULL_TERMINATED",
     "STRING_MSB", "STRING_LSB", "STRING_HEX_HIGH", "STRING_HEX_LOW",
     "STRING_UU", "STRING_MIME", "STRING_BASE64", "STRING_FIXED",
     "STRING_POINTER", "MOVE", "BACK", "NULL"}

PackSignedNames == {"UNSIGNED", "SIGNED", "SIGNED_NA"}

PackEndianNames ==
    {"AGNOSTIC_ENDIAN", "LITTLE_ENDIAN", "BIG_ENDIAN", "NATIVE_ENDIAN", "ENDIAN_NA"}

PackSizeNames ==
    {"SIZE_SHORT", "SIZE_INT", "SIZE_LONG", "SIZE_LONG_LONG", "SIZE_8",
     "SIZE_16", "SIZE_32", "SIZE_64", "SIZE_P", "SIZE_NA"}

PackLengthTypeNames == {"LENGTH_FIXED", "LENGTH_MAX", "LENGTH_RELATIVE", "LENGTH_NA"}

\* the symbol :NAME for the enum value YP_PACK_NAME when NAME is one of the
\* listed cases, nil in the default case
EnumToSymbol(value, names) ==
    IF \E n \in names : value = "YP_PACK_" \o n
    THEN CHOOSE n \in names : value = "YP_PACK_" \o n
    ELSE "Qnil"

pack_type_to_symbol(type) == EnumToSymbol(type, PackTypeNames)

pack_signed_to_symbol(signed_type) == EnumToSymbol(signed_type, PackSignedNames)

pack_endian_to_symbol(endian) == EnumToSymbol(endian, PackEndianNames)

pack_size_to_symbol(size) == EnumToSymbol(size, PackSizeNames)

pack_length_type_to_symbol(length_type) == EnumToSymbol(length_type, PackLengthTypeNames)

pack_encoding_to_ruby(enc) ==
    CASE enc = "YP_PACK_ENCODING_ASCII_8BIT" -> "Encoding::ASCII_8BIT"
      [] enc = "YP_PACK_ENCODING_US_ASCII"   -> "Encoding::US_ASCII"
      [] enc = "YP_PACK_ENCODING_UTF_8"      -> "Encoding::UTF_8"
      [] OTHER                               -> "Qnil"

---------------------------------------------------------------------------
(* The single-step directive parser yp_pack_parse (scanner, resolver and   *)
(* encoding threader), from the design document                            *)

\* the sample grammar table: letter -> defaults and accepted modifiers
KnownLetters == {"s", "U", "w", "P"}

DirectiveTable(c) ==
    CASE c = "s" -> [type |-> "YP_PACK_INTEGER", signed_type |-> "YP_PACK_SIGNED",
                     endian |-> "YP_PACK_NATIVE_ENDIAN", size |-> "YP_PACK_SIZE_16",
                     bang |-> TRUE, endian_mod |-> TRUE,
                     variants |-> {"YP_PACK_VARIANT_PACK", "YP_PACK_VARIANT_UNPACK"}]
      [] c = "U" -> [type |-> "YP_PACK_UTF8", signed_type |-> "YP_PACK_SIGNED_NA",
                     endian |-> "YP_PACK_ENDIAN_NA", size |-> "YP_PACK_SIZE_NA",
                     bang |-> FALSE, endian_mod |-> FALSE,
                     variants |-> {"YP_PACK_VARIANT_PACK", "YP_PACK_VARIANT_UNPACK"}]
      [] c = "w" -> [type |-> "YP_PACK_BER", signed_type |-> "YP_PACK_SIGNED_NA",
                     endian |-> "YP_PACK_ENDIAN_NA", size |-> "YP_PACK_SIZE_NA",
                     bang |-> FALSE, endian_mod |-> FALSE,
                     variants |-> {"YP_PACK_VARIANT_PACK", "YP_PACK_VARIANT_UNPACK"}]
      [] c = "P" -> [type |-> "YP_PACK_STRING_POINTER", signed_type |-> "YP_PACK_SIGNED_NA",
                     endian |-> "YP_PACK_ENDIAN_NA", size |-> "YP_PACK_SIZE_NA",
                     bang |-> FALSE, endian_mod |-> FALSE,
                     variants |-> {"YP_PACK_VARIANT_PACK"}]

\* the first offset >= pos whose character is not in S (or the end)
ScanWhile(fmt, pos, S) ==
    LET stops == {p \in pos..Len(fmt) : p = Len(fmt) \/ fmt[p + 1] \notin S}
    IN  CHOOSE p \in stops : \A q \in stops : p <= q

\* the first offset >= pos whose character is c (or the end)
ScanUntil(fmt, pos, c) ==
    LET stops == {p \in pos..Len(fmt) : p = Len(fmt) \/ fmt[p + 1] = c}
    IN  CHOOSE p \in stops : \A q \in stops : p <= q

\* Format Scanner: the offset just past the span that starts at pos < Len(fmt)
ScanSpan(fmt, pos) ==
    LET c == fmt[pos + 1]
    IN  IF c \in Blank THEN ScanWhile(fmt, pos, Blank)
        ELSE IF c = "#" THEN ScanUntil(fmt, pos, "\n")
        ELSE ScanWhile(fmt, pos + 1, ModifierChars)

HasChar(mods, c) == \E i \in 1..Len(mods) : mods[i] = c

IsDigitChar(c) == c \in DigitChars

\* the decimal value of the digits of a modifier run
CountValue(mods) ==
    LET ds == SelectSeq(mods, IsDigitChar)
    IN  Normalize([i \in 1..Len(ds) |-> DigitVal(ds[i])])

Undefined ==
    [type |-> "undef", signed_type |-> "undef", endian |-> "undef", size |-> "undef",
     length_type |-> "undef", length |-> <<0>>]

NotApplicable(type) ==
    [type |-> type, signed_type |-> "YP_PACK_SIGNED_NA", endian |-> "YP_PACK_ENDIAN_NA",
     size |-> "YP_PACK_SIZE_NA", length_type |-> "YP_PACK_LENGTH_NA", length |-> <<0>>]

\* Encoding Threader
ThreadEncoding(enc, type) ==
    CASE type = "YP_PACK_UTF8" -> "YP_PACK_ENCODING_UTF_8"
      [] type = "YP_PACK_BER"  -> "YP_PACK_ENCODING_ASCII_8BIT"
      [] OTHER                 -> enc

\* Directive Resolver on the letter span fmt[pos+1 .. stop]
ResolveLetter(var, fmt, pos, stop) ==
    LET c    == fmt[pos + 1]
        mods == SubSeq(fmt, pos + 2, stop)
        e    == DirectiveTable(c)
        nend == Cardinality({i \in 1..Len(mods) : mods[i] \in {"<", ">"}})
        fail(code) == [result |-> code, o |-> Undefined]
    IN  IF c \notin KnownLetters THEN fail("YP_PACK_ERROR_UNKNOWN_DIRECTIVE")
        ELSE IF var \notin e.variants THEN fail("YP_PACK_ERROR_UNSUPPORTED_DIRECTIVE")
        ELSE IF HasChar(mods, "!") /\ ~e.bang THEN fail("YP_PACK_ERROR_BANG_NOT_ALLOWED")
        ELSE IF nend > 1 \/ (nend = 1 /\ ~e.endian_mod)
             THEN fail("YP_PACK_ERROR_DOUBLE_ENDIAN")
        ELSE IF /\ ~HasChar(mods, "*")
                /\ \E i \in 1..Len(mods) : mods[i] \in DigitChars
                /\ DecLess(U64Max, CountValue(mods))
             THEN fail("YP_PACK_ERROR_LENGTH_TOO_BIG")
        ELSE [result |-> "YP_PACK_OK",
              o |-> [type        |-> e.type,
                     signed_type |-> e.signed_type,
                     endian      |-> IF HasChar(mods, "<") THEN "YP_PACK_LITTLE_ENDIAN"
                                     ELSE IF HasChar(mods, ">") THEN "YP_PACK_BIG_ENDIAN"
                                     ELSE e.endian,
                     size        |-> IF HasChar(mods, "!") THEN "YP_PACK_SIZE_SHORT"
                                     ELSE e.size,
                     length_type |-> IF HasChar(mods, "*") THEN "YP_PACK_LENGTH_MAX"
                                     ELSE "YP_PACK_LENGTH_FIXED",
                     length      |-> IF HasChar(mods, "*") THEN <<0>>
                                     ELSE IF \E i \in 1..Len(mods) : mods[i] \in DigitChars
                                          THEN CountValue(mods)
                                     ELSE <<1>>]]

\* yp_pack_parse(version, variant, &format, format_end, &type, ..., &length,
\* &encoding): the result code, the cursor after the call, the out-parameters
\* and the running encoding after the call
yp_pack_parse(ver, var, fmt, pos, enc) ==
    IF pos >= Len(fmt)
    THEN [result |-> "YP_PACK_OK", format |-> pos, o |-> NotApplicable("YP_PACK_END"),
          encoding |-> enc]
    ELSE LET c    == fmt[pos + 1]
             stop == ScanSpan(fmt, pos)
             r    == IF c \in Blank THEN [result |-> "YP_PACK_OK", o |-> NotApplicable("YP_PACK_SPACE")]
                     ELSE IF c = "#" THEN [result |-> "YP_PACK_OK", o |-> NotApplicable("YP_PACK_COMMENT")]
                     ELSE ResolveLetter(var, fmt, pos, stop)
         IN  [result   |-> r.result,
              format   |-> stop,
              o        |-> r.o,
              encoding |-> IF r.result = "YP_PACK_OK" THEN ThreadEncoding(enc, r.o.type)
                           ELSE enc]

FatalCodes ==
    {"YP_PACK_ERROR_UNSUPPORTED_DIRECTIVE", "YP_PACK_ERROR_UNKNOWN_DIRECTIVE",
     "YP_PACK_ERROR_LENGTH_TOO_BIG", "YP_PACK_ERROR_BANG_NOT_ALLOWED",
     "YP_PACK_ERROR_DOUBLE_ENDIAN"}

---------------------------------------------------------------------------
(* pack_parse: the decode driver *)

v3_2_0_symbol == "v3_2_0"

pack_symbol == "pack"

unpack_symbol == "unpack"

VersionSymbols == {v3_2_0_symbol, "v3_1_0"}

VariantSymbols == {pack_symbol, unpack_symbol, "repack"}

NoError == [class |-> "none", message |-> ""]

NoValue == [class |-> "none", directives |-> <<>>, encoding |-> "Qnil"]

rb_raise(class, message) == [class |-> class, message |-> message]

\* rb_raise(rb_eArgError, "invalid version")
InvalidVersionError == rb_raise("rb_eArgError", "invalid version")

\* rb_raise(rb_eArgError, "invalid variant")
InvalidVariantError == rb_raise("rb_eArgError", "invalid variant")

\* the exception of the switch over parse_result, NoError for YP_PACK_OK
SwitchRaise(result) ==
    CASE result = "YP_PACK_OK" -> NoError
      [] result = "YP_PACK_ERROR_UNSUPPORTED_DIRECTIVE" ->
             rb_raise("rb_eArgError", "unsupported directive")
      [] result = "YP_PACK_ERROR_UNKNOWN_DIRECTIVE" ->
             rb_raise("rb_eArgError", "unsupported directive")
      [] result = "YP_PACK_ERROR_LENGTH_TOO_BIG" ->
             rb_raise("rb_eRangeError", "pack length too big")
      [] result = "YP_PACK_ERROR_BANG_NOT_ALLOWED" ->
             rb_raise("rb_eRangeError", "bang not allowed")
      [] result = "YP_PACK_ERROR_DOUBLE_ENDIAN" ->
             rb_raise("rb_eRangeError", "double endian")
      [] OTHER -> rb_raise("rb_bug", "parse result")

\* the YARP::Pack::Directive built from directive_args[0..8]
Directive ==
    [version     |-> version_symbol,
     variant     |-> variant_symbol,
     source      |-> SubSeq(format_string, directive_start + 1, directive_end),
     type        |-> pack_type_to_symbol(out.type),
     signed      |-> pack_signed_to_symbol(out.signed_type),
     endian      |-> pack_endian_to_symbol(out.endian),
     size        |-> pack_size_to_symbol(out.size),
     length_type |-> pack_length_type_to_symbol(out.length_type),
     length      |-> LONG2NUM(out.length)]

pack_parse_version_late ==
    /\ api = "pack_parse" /\ pc = "version"
    /\ format_read' = TRUE
    /\ directives_array' = [allocated |-> TRUE, items |-> <<>>]
    /\ IF version_symbol = v3_2_0_symbol
       THEN /\ version' = "YP_PACK_VERSION_3_2_0"
            /\ pc' = "variant"
            /\ UNCHANGED raised
       ELSE /\ raised' = InvalidVersionError
            /\ pc' = "raised"
            /\ UNCHANGED version
    /\ UNCHANGED <<api, version_symbol, variant_symbol, format_string, variant, format,
                   encoding, directive_start, directive_end,
                   parse_result, out, resolver_calls, returned, file_vars>>

pack_parse_version ==
    /\ api = "pack_parse" /\ pc = "version"
    /\ IF version_symbol = v3_2_0_symbol
       THEN /\ version' = "YP_PACK_VERSION_3_2_0"
            /\ pc' = "variant"
            /\ UNCHANGED raised
       ELSE /\ raised' = InvalidVersionError
            /\ pc' = "raised"
            /\ UNCHANGED version
    /\ UNCHANGED <<api, version_symbol, variant_symbol, format_string, variant, format,
                   format_read, encoding, directives_array, directive_start, directive_end,
                   parse_result, out, resolver_calls, returned, file_vars>>

pack_parse_variant ==
    /\ api = "pack_parse" /\ pc = "variant"
    /\ IF variant_symbol = pack_symbol
       THEN /\ variant' = "YP_PACK_VARIANT_PACK"
            /\ pc' = "setup"
            /\ UNCHANGED raised
       ELSE IF variant_symbol = unpack_symbol
       THEN /\ variant' = "YP_PACK_VARIANT_UNPACK"
            /\ pc' = "setup"
            /\ UNCHANGED raised
       ELSE /\ raised' = InvalidVariantError
            /\ pc' = "raised"
            /\ UNCHANGED variant
    /\ UNCHANGED <<api, version_symbol, variant_symbol, format_string, version, format,
                   format_read, encoding, directives_array, directive_start, directive_end,
                   parse_result, out, resolver_calls, returned, file_vars>>

pack_parse_setup ==
    /\ api = "pack_parse" /\ pc = "setup"
    /\ format_read' = TRUE
    /\ format' = 0
    /\ encoding' = "YP_PACK_ENCODING_START"
    /\ directives_array' = [allocated |-> TRUE, items |-> <<>>]
    /\ pc' = "loop"
    /\ UNCHANGED <<api, version_symbol, variant_symbol, format_string, version, variant,
                   directive_start, directive_end, parse_result, out, resolver_calls,
                   raised, returned, file_vars>>

format_end == Len(format_string)

pack_parse_resolve_by_value ==
    /\ api = "pack_parse" /\ pc = "loop"
    /\ format < format_end
    /\ resolver_calls < MaxCalls
    /\ LET r == yp_pack_parse(version, variant, format_string, format, encoding)
       IN  /\ directive_start' = format
           /\ parse_result' = r.result
           /\ out' = r.o
           /\ encoding' = r.encoding
           /\ directive_end' = format
    /\ UNCHANGED format
    /\ resolver_calls' = resolver_calls + 1
    /\ pc' = "switch"
    /\ UNCHANGED <<api, version_symbol, variant_symbol, format_string, version, variant,
                   format_read, directives_array, raised, returned, file_vars>>

pack_parse_resolve_local_encoding ==
    /\ api = "pack_parse" /\ pc = "loop"
    /\ format < format_end
    /\ resolver_calls < MaxCalls
    /\ LET r == yp_pack_parse(version, variant, format_string, format,
                              "YP_PACK_ENCODING_START")
       IN  /\ directive_start' = format
           /\ format' = r.format
           /\ parse_result' = r.result
           /\ out' = r.o
           /\ encoding' = r.encoding
           /\ directive_end' = r.format
    /\ resolver_calls' = resolver_calls + 1
    /\ pc' = "switch"
    /\ UNCHANGED <<api, version_symbol, variant_symbol, format_string, version, variant,
                   format_read, directives_array, raised, returned, file_vars>>

\* while (format < format_end) { directive_start = format;
\*   parse_result = yp_pack_parse(...); directive_end = format;
pack_parse_resolve ==
    /\ api = "pack_parse" /\ pc = "loop"
    /\ format < format_end
    /\ resolver_calls < MaxCalls
    /\ LET r == yp_pack_parse(version, variant, format_string, format, encoding)
       IN  /\ directive_start' = format
           /\ format' = r.format
           /\ parse_result' = r.result
           /\ out' = r.o
           /\ encoding' = r.encoding
           /\ directive_end' = r.format
    /\ resolver_calls' = resolver_calls + 1
    /\ pc' = "switch"
    /\ UNCHANGED <<api, version_symbol, variant_symbol, format_string, version, variant,
                   format_read, directives_array, raised, returned, file_vars>>

pack_parse_switch_recover ==
    /\ api = "pack_parse" /\ pc = "switch"
    /\ IF parse_result # "YP_PACK_OK"
       THEN /\ raised' = SwitchRaise(parse_result)
            /\ pc' = "append"
       ELSE /\ pc' = IF out.type = "YP_PACK_END" THEN "return" ELSE "append"
            /\ UNCHANGED raised
    /\ UNCHANGED <<api, version_symbol, variant_symbol, format_string, version, variant,
                   format, format_read, encoding, directives_array, directive_start,
                   directive_end, parse_result, out, resolver_calls, returned, file_vars>>

\* switch (parse_result) { ... }  if (type == YP_PACK_END) break;
pack_parse_switch ==
    /\ api = "pack_parse" /\ pc = "switch"
    /\ IF parse_result # "YP_PACK_OK"
       THEN /\ raised' = SwitchRaise(parse_result)
            /\ pc' = "raised"
       ELSE /\ pc' = IF out.type = "YP_PACK_END" THEN "return" ELSE "append"
            /\ UNCHANGED raised
    /\ UNCHANGED <<api, version_symbol, variant_symbol, format_string, version, variant,
                   format, format_read, encoding, directives_array, directive_start,
                   directive_end, parse_result, out, resolver_calls, returned, file_vars>>

pack_parse_append_skip_space ==
    /\ api = "pack_parse" /\ pc = "append"
    /\ directives_array' =
           IF out.type = "YP_PACK_SPACE" THEN directives_array
           ELSE [directives_array EXCEPT !.items = Append(@, Directive)]
    /\ pc' = "loop"
    /\ UNCHANGED <<api, version_symbol, variant_symbol, format_string, version, variant,
                   format, format_read, encoding, directive_start, directive_end,
                   parse_result, out, resolver_calls, raised, returned, file_vars>>

\* rb_ary_push(directives_array, rb_class_new_instance(9, directive_args, ...))
pack_parse_append ==
    /\ api = "pack_parse" /\ pc = "append"
    /\ directives_array' = [directives_array EXCEPT !.items = Append(@, Directive)]
    /\ pc' = "loop"
    /\ UNCHANGED <<api, version_symbol, variant_symbol, format_string, version, variant,
                   format, format_read, encoding, directive_start, directive_end,
                   parse_result, out, resolver_calls, raised, returned, file_vars>>

\* the loop is left: its condition is false, or the break was taken
LoopLeft == IF pc = "loop" THEN format >= format_end ELSE pc = "return"

\* return rb_class_new_instance(2, format_args, rb_cYARPPackFormat)
pack_parse_return ==
    /\ api = "pack_parse"
    /\ LoopLeft
    /\ returned' = [class      |-> "YARP::Pack::Format",
                    directives |-> directives_array.items,
                    encoding   |-> pack_encoding_to_ruby(encoding)]
    /\ pc' = "done"
    /\ UNCHANGED <<api, version_symbol, variant_symbol, format_string, version, variant,
                   format, format_read, encoding, directives_array, directive_start,
                   directive_end, parse_result, out, resolver_calls, raised, file_vars>>

---------------------------------------------------------------------------
(* source_file_load, source_file_unload and the *_file entry points *)

FileAPIs == {"dump_file", "lex_file", "parse_file"}

\* the pointer values compared by `source == MAP_FAILED`: the address of the
\* caller's source_t, and (void *) -1
SourceStructAddress == "&source"

MAP_FAILED == "MAP_FAILED"

\* int fd = open(...); if (fd == -1) { perror("open"); return 1; }
source_file_load_open ==
    /\ api \in FileAPIs /\ pc = "open"
    /\ \E ok \in BOOLEAN :
          IF ok
          THEN /\ fd' = "open"
               /\ pc' = "fstat"
               /\ UNCHANGED <<load_result, syscall_failed>>
          ELSE /\ fd' = "-1"
               /\ syscall_failed' = "open"
               /\ load_result' = 1
               /\ pc' = "check"
    /\ UNCHANGED <<api, pack_vars, source, parser_runs, unloads, file_value>>

\* if (fstat(fd, &sb) == -1) { close(fd); perror("fstat"); return 1; }
\* source->size = sb.st_size;
source_file_load_fstat ==
    /\ api \in FileAPIs /\ pc = "fstat"
    /\ \E ok \in BOOLEAN, st_size \in 0..MaxFileSize :
          IF ok
          THEN /\ source' = [source EXCEPT !.size = st_size]
               /\ pc' = "mmap"
               /\ UNCHANGED <<fd, load_result, syscall_failed>>
          ELSE /\ fd' = "closed"
               /\ syscall_failed' = "fstat"
               /\ load_result' = 1
               /\ pc' = "check"
               /\ UNCHANGED source
    /\ UNCHANGED <<api, pack_vars, parser_runs, unloads, file_value>>

\* source->source = mmap(...); close(fd);
\* if (source == MAP_FAILED) { perror("mmap"); return 1; }  return 0;
source_file_load_mmap ==
    /\ api \in FileAPIs /\ pc = "mmap"
    /\ \E ok \in BOOLEAN :
          /\ source' = [source EXCEPT !.source = IF ok THEN "mapped" ELSE MAP_FAILED]
          /\ syscall_failed' = IF ok THEN "none" ELSE "mmap"
    /\ fd' = "closed"
    /\ load_result' = IF SourceStructAddress = MAP_FAILED THEN 1 ELSE 0
    /\ pc' = "check"
    /\ UNCHANGED <<api, pack_vars, parser_runs, unloads, file_value>>

\* if (source_file_load(&source, filepath) != 0) return Qnil;
file_check_load ==
    /\ api \in FileAPIs /\ pc = "check"
    /\ IF load_result # 0
       THEN /\ file_value' = "Qnil"
            /\ pc' = "done"
       ELSE /\ pc' = "run"
            /\ UNCHANGED file_value
    /\ UNCHANGED <<api, pack_vars, fd, source, load_result, syscall_failed,
                   parser_runs, unloads>>

\* VALUE value = dump_source(&source) / lex_source / parse_source.
\* Reading through a source->source that is MAP_FAILED is undefined: the
\* process is killed, or the parser runs on whatever is there.
file_run_source ==
    /\ api \in FileAPIs /\ pc = "run"
    /\ parser_runs' = parser_runs + 1
    /\ \E outcome \in {"ran", "SIGSEGV"} :
          pc' = IF source.source # "mapped" /\ outcome = "SIGSEGV"
                THEN "crashed" ELSE "unload"
    /\ UNCHANGED <<api, pack_vars, fd, source, load_result, syscall_failed,
                   unloads, file_value>>

\* source_file_unload(&source); return value;
source_file_unload ==
    /\ api \in FileAPIs /\ pc = "unload"
    /\ source' = [source EXCEPT !.source = IF @ = "mapped" THEN "unmapped" ELSE @]
    /\ unloads' = unloads + 1
    /\ file_value' = "value"
    /\ pc' = "done"
    /\ UNCHANGED <<api, pack_vars, fd, load_result, syscall_failed, parser_runs>>

---------------------------------------------------------------------------
(* The specifications *)

PackIdle ==
    /\ version = "unset" /\ variant = "unset"
    /\ format = 0 /\ format_read = FALSE
    /\ encoding = "unset"
    /\ directives_array = [allocated |-> FALSE, items |-> <<>>]
    /\ directive_start = 0 /\ directive_end = 0
    /\ parse_result = "unset"
    /\ out = Undefined
    /\ resolver_calls = 0
    /\ raised = NoError
    /\ returned = NoValue

FileIdle ==
    /\ fd = "none"
    /\ source = [source |-> "uninit", size |-> -1]
    /\ load_result = -1
    /\ syscall_failed = "none"
    /\ parser_runs = 0
    /\ unloads = 0
    /\ file_value = "unset"

InitPack ==
    /\ api = "pack_parse" /\ pc = "version"
    /\ version_symbol \in VersionSymbols
    /\ variant_symbol \in VariantSymbols
    /\ format_string \in Formats
    /\ PackIdle /\ FileIdle

InitFile ==
    /\ api \in FileAPIs /\ pc = "open"
    /\ version_symbol = "unset" /\ variant_symbol = "unset" /\ format_string = <<>>
    /\ PackIdle /\ FileIdle

Init == InitPack \/ InitFile

Next ==
    \/ pack_parse_version
    \/ pack_parse_variant
    \/ pack_parse_setup
    \/ pack_parse_resolve
    \/ pack_parse_switch
    \/ pack_parse_append
    \/ pack_parse_return
    \/ source_file_load_open
    \/ source_file_load_fstat
    \/ source_file_load_mmap
    \/ file_check_load
    \/ file_run_source
    \/ source_file_unload

Spec == Init /\ [][Next]_vars

\* the extension runs to completion once called: no step waits on anything
LiveSpec == Spec /\ WF_vars(Next)

---------------------------------------------------------------------------
(* Properties *)

PackCall == api = "pack_parse"

\* the decode call ended in Failed: a fatal resolver code was raised
DecodeFailed == PackCall /\ pc = "raised" /\ parse_result \in FatalCodes

\* the decode call ended in Success
DecodeSucceeded == PackCall /\ pc = "done"

BadArguments ==
    \/ version_symbol # v3_2_0_symbol
    \/ variant_symbol \notin {pack_symbol, unpack_symbol}

\* C1: each fatal resolver code reaches the caller as an error of its own:
\* the error raised for a failed decode is raised for no other fatal code
\* (so UnknownDirective can be told from UnsupportedDirective).
C1_ErrorIdentifiesCode ==
    DecodeFailed =>
        \A c \in FatalCodes : SwitchRaise(c) = raised => c = parse_result

\* C2: the error of a failed decode carries the start and end offsets of
\* the span whose resolution returned the fatal code.
C2_ErrorCarriesSpan ==
    DecodeFailed =>
        /\ {"start", "end"} \subseteq DOMAIN raised
        /\ raised.start = directive_start
        /\ raised.end = directive_end

\* C3: the error class of a failed decode is never the class of the
\* usage errors raised for an invalid version or variant.
C3_UsageClassDistinct ==
    DecodeFailed =>
        raised.class \notin {InvalidVersionError.class, InvalidVariantError.class}

C4_Outcome ==
    PackCall =>
        /\ ~(raised # NoError /\ returned # NoValue)
        /\ raised # NoError => pc = "raised"
        /\ pc = "raised" => raised # NoError /\ returned = NoValue
        /\ DecodeFailed => Len(directives_array.items) = resolver_calls - 1
        /\ pc = "done" =>
              /\ raised = NoError /\ returned # NoValue
              /\ returned.directives = directives_array.items
              /\ Len(returned.directives) =
                    resolver_calls - (IF out.type = "YP_PACK_END" THEN 1 ELSE 0)

\* C4: the driver is fail-stop.  The caller gets a value or an error, never
\* both; an error leaves the call at once, with no value returned and no
\* directive appended for the failing span; a returned stream holds a
\* directive for every span resolved; and once an error is raised no further
\* resolver call is made and nothing more is appended.
C4_FailStop ==
    /\ []C4_Outcome
    /\ [][raised # NoError =>
            /\ resolver_calls' = resolver_calls
            /\ directives_array' = directives_array
            /\ returned' = returned]_vars

C4_Witness == DecodeFailed /\ Len(directives_array.items) >= 2

\* C5: with a version other than v3_2_0 or a variant other than pack/unpack
\* the call fails before scanning: the resolver is never called, the format
\* string is never read, no array or directive is created, and the call ends
\* with the usage error and no value.
C5_FailFast ==
    (PackCall /\ BadArguments) =>
        /\ resolver_calls = 0
        /\ ~format_read
        /\ directives_array = [allocated |-> FALSE, items |-> <<>>]
        /\ returned = NoValue
        /\ pc \in {"version", "variant", "raised"}
        /\ pc = "raised" => raised \in {InvalidVersionError, InvalidVariantError}

C5_Witness ==
    /\ PackCall /\ pc = "raised"
    /\ version_symbol = v3_2_0_symbol /\ variant_symbol \notin {pack_symbol, unpack_symbol}
    /\ Len(format_string) > 1

RECURSIVE ConcatSources(_)
ConcatSources(ds) ==
    IF ds = <<>> THEN <<>> ELSE Head(ds).source \o ConcatSources(Tail(ds))

C7_LengthPreserved ==
    DecodeSucceeded =>
        \A i \in 1..Len(returned.directives) :
            LET d == returned.directives[i]
            IN  (d.length_type = "LENGTH_FIXED" /\ \E k \in 1..Len(d.source) : d.source[k] \in DigitChars)
                    => d.length = [neg |-> FALSE, mag |-> CountValue(Tail(d.source))]

\* the encoding forced by the last encoding-forcing directive of ds, nil if none
RECURSIVE LastForced(_)
LastForced(ds) ==
    IF ds = <<>> THEN "Qnil"
    ELSE LET d == ds[Len(ds)]
         IN  CASE d.type = "UTF8" -> "Encoding::UTF_8"
               [] d.type = "BER"  -> "Encoding::ASCII_8BIT"
               [] OTHER           -> LastForced(SubSeq(ds, 1, Len(ds) - 1))

C8_Result ==
    PackCall =>
        /\ (pc = "loop" /\ resolver_calls = 0) => encoding = "YP_PACK_ENCODING_START"
        /\ DecodeSucceeded => returned.encoding = LastForced(returned.directives)
        /\ raised # NoError =>
              raised \in {InvalidVersionError, InvalidVariantError}
                           \cup {SwitchRaise(c) : c \in FatalCodes}
        /\ DecodeFailed =>
              yp_pack_parse(version, variant, format_string, directive_start,
                            "YP_PACK_ENCODING_START").result = parse_result

\* C8: the running encoding starts Unspecified, changes only when a UTF-8
\* directive (to UTF-8) or a BER directive (to ASCII-8BIT) is resolved, and
\* once forced is never Unspecified again; Success returns the encoding of
\* the last forcing directive, or nil when there was none; and every error
\* is a usage error or one of the five fatal codes, decided by the failing
\* span alone whatever the running encoding is.
C8_EncodingThreading ==
    /\ []C8_Result
    /\ [][(PackCall /\ encoding \notin {"unset", "YP_PACK_ENCODING_START"})
              => encoding' # "YP_PACK_ENCODING_START"]_vars
    /\ [][(PackCall /\ encoding # "unset" /\ encoding' # encoding) =>
              \/ out'.type = "YP_PACK_UTF8" /\ encoding' = "YP_PACK_ENCODING_UTF_8"
              \/ out'.type = "YP_PACK_BER" /\ encoding' = "YP_PACK_ENCODING_ASCII_8BIT"]_vars

C8_Witness ==
    /\ DecodeSucceeded
    /\ \E i, j \in 1..Len(returned.directives) :
          /\ i < j /\ j < Len(returned.directives)
          /\ returned.directives[i].type = "BER"
          /\ returned.directives[j].type = "UTF8"
    /\ returned.encoding = "Encoding::UTF_8"

C10_LoadDetectsFailure ==
    api \in FileAPIs =>
        /\ load_result # -1 => (load_result # 0 <=> syscall_failed # "none")
        /\ parser_runs > 0 => source.source \in {"mapped", "unmapped"}
        /\ unloads > 0 => source.source = "unmapped"
        /\ (pc = "done" /\ syscall_failed # "none") =>
              (file_value = "Qnil" /\ parser_runs = 0 /\ unloads = 0)
        /\ (load_result # -1 /\ syscall_failed # "open") => fd = "closed"

====
